---- MODULE Spec2Model ----
(***************************************************************************)
(* A model of NeuroConn/preprocessing/preprocessing.py:                    *)
(*   - z_transform_conn_matrix (Fisher z transform with NaN/Inf patching), *)
(*   - RawDataset.docker_fmriprep (spawn one subprocess, poll it),         *)
(*   - FmriPreppedDataSet.__init__ / _find_sub_dirs,                       *)
(*   - get_sessions / get_ts_paths / get_confounds / parcellate,           *)
(*   - clean_signal / get_conn_matrix.                                     *)
(*                                                                         *)
(* Floating-point values are modelled as decimal numbers m * 10^e with the *)
(* IEEE special values NaN and +/-Inf kept apart; np.arctanh and           *)
(* np.corrcoef are computed in fixed-point arithmetic.                     *)
(***************************************************************************)
EXTENDS Integers, Sequences, FiniteSets, TLC

VARIABLES
    \* z_transform_conn_matrix called on its own
    zin,        \* the argument conn_matrix
    zout,       \* the returned matrix, or NoValue before the call
    \* get_conn_matrix on an array of cleaned time series
    subj_ts_array,  \* (sessions, volumes, parcels)
    gargs,      \* the arguments of the call, or NoValue before it
    stacked,    \* np.row_stack(subj_ts_array) of the call (concat_ts only)
    corrs,      \* the np.corrcoef results of the call, before any transform
    conn_matrix,    \* what the call returned (or the error it raised)
    \* RawDataset.docker_fmriprep
    dpc,        \* where the call is: "idle", "opened", "poll", "sleep", "read", "returned"
    dsubject,   \* the subject of the current call
    procs,      \* the subprocesses spawned so far: "running" or "exited"
    logdir,     \* whether <BIDS_path>/fmriprep_logs exists
    logs,       \* per subject, the number of lines in its log file (-1: no file)
    printed,    \* per call that returned, the number of log lines it printed
    \* FmriPreppedDataSet.__init__ and _find_sub_dirs
    platform,   \* "posix" or "nt": how the OS words its errors
    dirs,       \* the directories at and below <BIDS_path>/derivatives, as paths
    files,      \* the regular files there
    cpc,        \* "setup", "while", "for", "returned", "raised"
    data_path,  \* self.data_path, a path below <BIDS_path>/derivatives
    subdirs,    \* the listing the for loop runs over
    idx,        \* the position of the for loop in subdirs
    path_not_found, \* the loop flag of _find_sub_dirs
    oserror,    \* the error os.listdir raised, if any
    error,      \* the error the constructor raised, if any
    \* one subject's directory and the calls that read it
    sessions,   \* the 'ses-*' entries of <data_path>/sub-<subject>, as listed
    funcdirs,   \* per session (0: the subject itself), its func directory
    call,       \* the method called and its arguments, or NoValue
    ts_paths,   \* what get_ts_paths returned to the call
    confounds,  \* what get_confounds returned to the call
    fitted,     \* the (time series, confounds) pairs given to the masker
    ret,        \* what the call returned, or the error it raised
    \* get_conn_matrix saving its result
    out_dirs,   \* the output directories that exist on disk
    npy_files,  \* the conn-matrix files on disk, as paths
    subject_conn_paths, \* self.subject_conn_paths: subject -> path
    save_call,  \* the last call: its arguments, what it found and its outcome
    last_save,  \* per subject, the last call that reached the save block
    n_saves     \* the number of calls so far

zvars == <<zin, zout>>
gvars == <<subj_ts_array, gargs, stacked, corrs, conn_matrix>>
dvars == <<dpc, dsubject, procs, logdir, logs, printed>>
fvars == <<platform, dirs, files, cpc, data_path, subdirs, idx, path_not_found,
           oserror, error>>
svars == <<sessions, funcdirs, call, ts_paths, confounds, fitted, ret>>
pvars == <<out_dirs, npy_files, subject_conn_paths, save_call, last_save, n_saves>>
vars == <<zvars, gvars, dvars, fvars, svars, pvars>>

\* what each part of the program leaves alone
notZ == <<gvars, dvars, fvars, svars, pvars>>
notG == <<zvars, dvars, fvars, svars, pvars>>
notD == <<zvars, gvars, fvars, svars, pvars>>
notF == <<zvars, gvars, dvars, svars, pvars>>

NoValue == [k |-> "none", v |-> <<>>]
Value(v) == [k |-> "ok", v |-> v]
Raised(e) == [k |-> "raised", v |-> e]

\* the subjects of the dataset
Subjects == {"01", "02"}

(***************************************************************************)
(* Each part of the program before it is used                              *)
(***************************************************************************)
ZIdle == zin = <<>> /\ zout = NoValue

GIdle ==
    /\ subj_ts_array = <<>>
    /\ gargs = NoValue
    /\ stacked = NoValue
    /\ corrs = <<>>
    /\ conn_matrix = NoValue

DIdle ==
    /\ dpc = "idle"
    /\ dsubject = "01"
    /\ procs = <<>>
    /\ logdir = FALSE
    /\ logs = [s \in Subjects |-> -1]
    /\ printed = <<>>

NoError == [type |-> "none", filename |-> <<"-">>, strerror |-> "", message |-> ""]

FIdle ==
    /\ platform = "posix"
    /\ dirs = {}
    /\ files = {}
    /\ cpc = "setup"
    /\ data_path = <<>>
    /\ subdirs = <<>>
    /\ idx = 0
    /\ path_not_found = TRUE
    /\ oserror = NoError
    /\ error = NoError

\* the number of session directories a subject can have
MaxSes == 2

NoDir == [exists |-> FALSE, listing |-> <<>>]

SIdle ==
    /\ sessions = <<>>
    /\ funcdirs = [k \in 0..MaxSes |-> NoDir]
    /\ call = NoValue
    /\ ts_paths = <<>>
    /\ confounds = <<>>
    /\ fitted = <<>>
    /\ ret = NoValue

PIdle ==
    /\ out_dirs = {}
    /\ npy_files = {}
    /\ subject_conn_paths = <<>>
    /\ save_call = NoValue
    /\ last_save = [s \in Subjects |-> NoValue]
    /\ n_saves = 0

(***************************************************************************)
(* Floats                                                                  *)
(***************************************************************************)
RECURSIVE Norm(_, _)
\* the one representation of m * 10^e: no trailing zero in m, zero is 0e0
Norm(m, e) ==
    IF m = 0 THEN [k |-> "fin", m |-> 0, e |-> 0]
    ELSE IF m % 10 = 0 THEN Norm(m \div 10, e + 1)
    ELSE [k |-> "fin", m |-> m, e |-> e]

Fin(m, e) == Norm(m, e)
NaN == [k |-> "nan", m |-> 0, e |-> 0]
Inf(s) == [k |-> "inf", m |-> s, e |-> 0]

IsNaN(x) == x.k = "nan"
IsInf(x) == x.k = "inf"
IsFinite(x) == x.k = "fin"

Abs(n) == IF n < 0 THEN -n ELSE n
Sgn(n) == IF n < 0 THEN -1 ELSE IF n > 0 THEN 1 ELSE 0

RECURSIVE Pow10(_)
Pow10(n) == IF n = 0 THEN 1 ELSE 10 * Pow10(n - 1)

\* fixed point: the number of units of 10^-4 in one
FixOne == 10000
\* ln 2 in units of 10^-4
FixLn2 == 6931

\* a finite float with -4 <= e <= 0 in units of 10^-4
ToFix(x) == x.m * Pow10(x.e + 4)

\* a / b rounded to the nearest integer, for a >= 0 and b > 0
RDiv(a, b) == (2 * a + b) \div (2 * b)

RECURSIVE AtanhSeries(_, _, _, _)
\* t + t^3/3 + t^5/5 + ... in fixed point; term = t^n, t2 = t^2
AtanhSeries(term, t2, n, acc) ==
    IF term = 0 \/ n > 15 THEN acc
    ELSE AtanhSeries(RDiv(term * t2, FixOne), t2, n + 2, acc + RDiv(term, n))

\* ln(n/d) for d <= n < 2d, as 2 atanh((n-d)/(n+d))
LnMantissa(n, d) ==
    LET t == RDiv((n - d) * FixOne, n + d)
    IN  2 * AtanhSeries(t, RDiv(t * t, FixOne), 1, 0)

RECURSIVE LnRatio(_, _)
\* ln(n/d) for n >= d > 0
LnRatio(n, d) ==
    IF n >= 2 * d THEN FixLn2 + LnRatio(n, 2 * d) ELSE LnMantissa(n, d)

\* atanh(a / FixOne) for 0 <= a < FixOne: (1/2) ln((1+x)/(1-x))
AtanhFix(a) == RDiv(LnRatio(FixOne + a, FixOne - a), 2)

\* np.arctanh of one entry
arctanh(x) ==
    IF IsNaN(x) \/ IsInf(x) THEN NaN
    ELSE IF x.m = 0 THEN Fin(0, 0)
    ELSE IF x.e > 0 THEN NaN                    \* |x| >= 10
    ELSE IF x.e < -4 THEN x                     \* atanh(x) = x + O(x^3)
    ELSE LET a == Abs(ToFix(x))
         IN  IF a > FixOne THEN NaN
             ELSE IF a = FixOne THEN Inf(Sgn(x.m))
             ELSE Fin(Sgn(x.m) * AtanhFix(a), -4)

(***************************************************************************)
(* z_transform_conn_matrix                                                 *)
(***************************************************************************)
\* a matrix is a sequence of rows, each a sequence of floats
Rows(M) == DOMAIN M
Cols(M) == IF Len(M) = 0 THEN {} ELSE DOMAIN M[1]
Cells(M) == {ij \in Rows(M) \X Cols(M) : TRUE}

\* conn_matrix[indices] = value
AssignAt(M, indices, value) ==
    [i \in Rows(M) |-> [j \in Cols(M) |->
        IF <<i, j>> \in indices THEN value ELSE M[i][j]]]

\* np.arctanh applies to every element
np_arctanh(M) == [i \in Rows(M) |-> [j \in Cols(M) |-> arctanh(M[i][j])]]

\* np.where(np.isnan(conn_matrix))
nan_indices(M) == {ij \in Cells(M) : IsNaN(M[ij[1]][ij[2]])}

inf_indices_positive_only(M) ==
    {ij \in Cells(M) : IsInf(M[ij[1]][ij[2]]) /\ M[ij[1]][ij[2]].m > 0}

\* np.where(np.isinf(conn_matrix))
inf_indices(M) == {ij \in Cells(M) : IsInf(M[ij[1]][ij[2]])}

\* .0000000001
NanSentinel == Fin(1, -10)
\* 1
InfSentinel == Fin(1, 0)

patch_nan(M) ==
    IF nan_indices(M) # {} THEN AssignAt(M, nan_indices(M), NanSentinel) ELSE M

patch_inf_keep_sign(M) ==
    [i \in Rows(M) |-> [j \in Cols(M) |->
        IF IsInf(M[i][j]) THEN Fin(M[i][j].m, 0) ELSE M[i][j]]]

patch_inf(M) ==
    IF inf_indices(M) # {} THEN AssignAt(M, inf_indices(M), InfSentinel) ELSE M

z_transform_conn_matrix(M) == patch_inf(patch_nan(np_arctanh(M)))

(***************************************************************************)
(* RawDataset.docker_fmriprep                                              *)
(***************************************************************************)
\* the number of calls of docker_fmriprep, and of lines a subprocess writes
MaxCalls == 2
MaxOutput == 2

\* docker_fmriprep(subject, ...) up to "with open(log_file, 'w') as file":
\* the log directory is made when missing, the log file created or truncated
DockerCall(subject) ==
    /\ dpc \in {"idle", "returned"}
    /\ Len(procs) < MaxCalls
    /\ dpc' = "opened"
    /\ dsubject' = subject
    /\ logdir' = TRUE
    /\ logs' = [logs EXCEPT ![subject] = 0]
    /\ UNCHANGED <<procs, printed, notD>>

\* process = sp.Popen(["bash", "-c", fmriprep_bash], stdout=file, stderr=file)
Popen ==
    /\ dpc = "opened"
    /\ procs' = Append(procs, "running")
    /\ dpc' = "poll"
    /\ UNCHANGED <<dsubject, logdir, logs, printed, notD>>

\* the subprocess of the current call: "running", "exited", or "none"
process ==
    IF dpc \in {"idle", "opened"} \/ procs = <<>> THEN "none" ELSE procs[Len(procs)]

PollWithTimeout ==
    /\ dpc = "poll"
    /\ dpc' = IF process = "running" /\ logs[dsubject] < MaxOutput
              THEN "sleep" ELSE "read"
    /\ UNCHANGED <<dsubject, procs, logdir, logs, printed, notD>>

\* while process.poll() is None: the loop goes on while the subprocess runs
\* and is left, closing the log file, once it has exited
Poll ==
    /\ dpc = "poll"
    /\ dpc' = IF process = "running" THEN "sleep" ELSE "read"
    /\ UNCHANGED <<dsubject, procs, logdir, logs, printed, notD>>

\* time.sleep(0.1) returns
Sleep ==
    /\ dpc = "sleep"
    /\ dpc' = "poll"
    /\ UNCHANGED <<dsubject, procs, logdir, logs, printed, notD>>

\* with open(log_file, "r") as file: print(file.read()), and the call returns
ReadLog ==
    /\ dpc = "read"
    /\ printed' = Append(printed, logs[dsubject])
    /\ dpc' = "returned"
    /\ UNCHANGED <<dsubject, procs, logdir, logs, notD>>

\* the subprocess writes a line to its stdout or stderr, the log file
ProcessWrites ==
    /\ process = "running"
    /\ logs[dsubject] < MaxOutput
    /\ logs' = [logs EXCEPT ![dsubject] = @ + 1]
    /\ UNCHANGED <<dpc, dsubject, procs, logdir, printed, notD>>

\* the subprocess exits
ProcessExits ==
    /\ process = "running"
    /\ procs' = [procs EXCEPT ![Len(procs)] = "exited"]
    /\ UNCHANGED <<dpc, dsubject, logdir, logs, printed, notD>>

InitD ==
    /\ DIdle
    /\ ZIdle
    /\ GIdle
    /\ FIdle
    /\ SIdle
    /\ PIdle

NextD ==
    \/ \E subject \in Subjects : DockerCall(subject)
    \/ Popen
    \/ Poll
    \/ Sleep
    \/ ReadLog
    \/ ProcessWrites
    \/ ProcessExits

\* the interpreter goes on running the call: a poll, a sleep that ends and the
\* reading of the log are taken when they can be; the subprocess is under no
\* such obligation
SpecD ==
    /\ InitD
    /\ [][NextD]_vars
    /\ WF_vars(Popen)
    /\ WF_vars(Poll)
    /\ WF_vars(Sleep)
    /\ WF_vars(ReadLog)

(***************************************************************************)
(* FmriPreppedDataSet.__init__ and _find_sub_dirs                          *)
(***************************************************************************)
\* the names an entry of a directory can have
Names == {"a", "b", "sub-01"}

\* subdir.startswith('sub-')
StartsWithSub(name) == name \in {"sub-01"}

\* the number of entries below <BIDS_path>/derivatives
MaxEntries == 3

\* <BIDS_path>/derivatives
Derivatives == <<>>

Exists(path) == path \in dirs \/ path \in files

\* the names of the entries of a directory
Entries(path) == {n \in Names : Exists(Append(path, n))}

\* the orders os.listdir can return the entries in
Orders(S) ==
    {q \in [1..Cardinality(S) -> S] : \A i, j \in DOMAIN q : q[i] = q[j] => i = j}

\* what strerror says of a missing path
NoSuchFile ==
    IF platform = "posix" THEN "No such file or directory"
    ELSE "The system cannot find the path specified"

\* the error os.listdir(path) raises when path is no directory
ListdirError(path) ==
    IF path \in files
    THEN [type |-> "NotADirectoryError", filename |-> path,
          strerror |-> "Not a directory", message |-> "Not a directory"]
    ELSE [type |-> "FileNotFoundError", filename |-> path,
          strerror |-> NoSuchFile, message |-> NoSuchFile]

NotPreprocessed ==
    [type |-> "FileNotFoundError", filename |-> <<"-">>, strerror |-> "",
     message |-> "The data have not been preprocessed with fmriprep: no 'derivatives' directory found."]

Reraise_ignoring_strerror(e, path) ==
    IF e.type = "FileNotFoundError" /\ e.filename = path THEN NotPreprocessed ELSE e

\* what leaves the try statement when os.listdir(self.data_path) raised e:
\* only FileNotFoundError is caught, and one case of it is reworded
Reraise(e, path) ==
    IF e.type = "FileNotFoundError"
    THEN IF e.filename = path /\ e.strerror = "No such file or directory"
         THEN NotPreprocessed
         ELSE e
    ELSE e

\* the files of the dataset are put in place before the object is made
MakeDerivatives(isdir) ==
    /\ cpc = "setup"
    /\ ~Exists(Derivatives)
    /\ IF isdir
       THEN dirs' = dirs \cup {Derivatives} /\ UNCHANGED files
       ELSE files' = files \cup {Derivatives} /\ UNCHANGED dirs
    /\ UNCHANGED <<platform, cpc, data_path, subdirs, idx, path_not_found,
                   oserror, error, notF>>

MakeEntry(parent, name, isdir) ==
    /\ cpc = "setup"
    /\ parent \in dirs
    /\ ~Exists(Append(parent, name))
    /\ Cardinality(dirs \cup files) <= MaxEntries
    /\ IF isdir
       THEN dirs' = dirs \cup {Append(parent, name)} /\ UNCHANGED files
       ELSE files' = files \cup {Append(parent, name)} /\ UNCHANGED dirs
    /\ UNCHANGED <<platform, cpc, data_path, subdirs, idx, path_not_found,
                   oserror, error, notF>>

\* FmriPreppedDataSet(BIDS_path) up to the call of _find_sub_dirs:
\* RawDataset.__init__ raises when BIDS_path is None and when participants.tsv
\* cannot be read; otherwise data_path is BIDS_path + '/derivatives'
Construct(bids_path_given, participants_readable) ==
    /\ cpc = "setup"
    /\ IF ~bids_path_given
       THEN /\ cpc' = "raised"
            /\ error' = [type |-> "ValueError", filename |-> <<"-">>, strerror |-> "",
                         message |-> "The path to the dataset in BIDS format must be specified (BIDS_path)."]
            /\ UNCHANGED <<data_path, path_not_found>>
       ELSE IF ~participants_readable
       THEN /\ cpc' = "raised"
            /\ error' = [type |-> "FileNotFoundError", filename |-> <<"participants.tsv">>,
                         strerror |-> NoSuchFile, message |-> NoSuchFile]
            /\ UNCHANGED <<data_path, path_not_found>>
       ELSE /\ cpc' = "while"
            /\ data_path' = Derivatives
            /\ path_not_found' = TRUE
            /\ UNCHANGED error
    /\ UNCHANGED <<platform, dirs, files, subdirs, idx, oserror, notF>>

\* while path_not_found: try: subdirs = os.listdir(self.data_path) except ...
ListDir ==
    /\ cpc = "while"
    /\ IF data_path \in dirs
       THEN /\ \E order \in Orders(Entries(data_path)) : subdirs' = order
            /\ idx' = 1
            /\ cpc' = "for"
            /\ UNCHANGED <<oserror, error>>
       ELSE /\ oserror' = ListdirError(data_path)
            /\ error' = Reraise(ListdirError(data_path), data_path)
            /\ cpc' = "raised"
            /\ UNCHANGED <<subdirs, idx>>
    /\ UNCHANGED <<platform, dirs, files, data_path, path_not_found, notF>>

\* one round of "for subdir in subdirs", or its end: back to the while test,
\* and to "return self.data_path" when path_not_found is False
ForStep ==
    /\ cpc = "for"
    /\ IF idx > Len(subdirs)
       THEN /\ cpc' = IF path_not_found THEN "while" ELSE "returned"
            /\ UNCHANGED <<data_path, path_not_found, idx>>
       ELSE /\ idx' = idx + 1
            /\ UNCHANGED cpc
            /\ IF \E k \in DOMAIN subdirs : StartsWithSub(subdirs[k])
               THEN path_not_found' = FALSE /\ UNCHANGED data_path
               ELSE /\ UNCHANGED path_not_found
                    /\ IF Append(data_path, subdirs[idx]) \in dirs
                       THEN data_path' = Append(data_path, subdirs[idx])
                       ELSE UNCHANGED data_path
    /\ UNCHANGED <<platform, dirs, files, subdirs, oserror, error, notF>>

InitF ==
    /\ platform \in {"posix", "nt"}
    /\ dirs = {}
    /\ files = {}
    /\ cpc = "setup"
    /\ data_path = <<>>
    /\ subdirs = <<>>
    /\ idx = 0
    /\ path_not_found = TRUE
    /\ oserror = NoError
    /\ error = NoError
    /\ ZIdle
    /\ GIdle
    /\ DIdle
    /\ SIdle
    /\ PIdle

NextF ==
    \/ \E isdir \in BOOLEAN : MakeDerivatives(isdir)
    \/ \E parent \in dirs, name \in Names, isdir \in BOOLEAN :
        MakeEntry(parent, name, isdir)
    \/ \E given \in BOOLEAN, readable \in BOOLEAN : Construct(given, readable)
    \/ ListDir
    \/ ForStep

SpecF == InitF /\ [][NextF]_vars

\* the interpreter goes on running the constructor
SpecFFair == SpecF /\ WF_vars(ListDir) /\ WF_vars(ForStep)

(***************************************************************************)
(* z_transform_conn_matrix on any matrix of floats                         *)
(***************************************************************************)
\* the number of entries of the largest matrix tried
MaxCells == 4

\* the entries tried: in range, on the boundary, out of range, not finite
InputValues ==
    { NaN, Inf(1), Fin(1, 0), Fin(-1, 0), Fin(0, 0), Fin(5, -1), Fin(-75, -2),
      Fin(15, -1) }

Shapes == {rc \in (1..MaxCells) \X (1..MaxCells) : rc[1] * rc[2] <= MaxCells}

InitZ ==
    /\ \E rc \in Shapes : zin \in [1..rc[1] -> [1..rc[2] -> InputValues]]
    /\ zout = NoValue
    /\ GIdle
    /\ DIdle
    /\ FIdle
    /\ SIdle
    /\ PIdle

ZTransform ==
    /\ zout = NoValue
    /\ zout' = Value(z_transform_conn_matrix(zin))
    /\ UNCHANGED <<zin, notZ>>

NextZ == ZTransform

SpecZ == InitZ /\ [][NextZ]_vars

(***************************************************************************)
(* np.row_stack, np.corrcoef and get_conn_matrix                           *)
(***************************************************************************)
\* n_parcels: the number of columns of every (volumes x parcels) array
NParcels == 2

RECURSIVE row_stack_from(_, _)
row_stack_from(A, s) ==
    IF s > Len(A) THEN <<>> ELSE A[s] \o row_stack_from(A, s + 1)

row_stack_first_only(A) == A[1]

\* np.row_stack(subj_ts_array): the sessions' rows, one session after another
row_stack(A) == row_stack_from(A, 1)

\* subj_ts.T: parcels x volumes
Transpose(X) == [p \in 1..NParcels |-> [t \in 1..Len(X) |-> X[t][p]]]

RECURSIVE SumSeq(_, _)
SumSeq(x, t) == IF t > Len(x) THEN 0 ELSE x[t] + SumSeq(x, t + 1)

RECURSIVE DotSeq(_, _, _)
DotSeq(x, y, t) == IF t > Len(x) THEN 0 ELSE x[t] * y[t] + DotSeq(x, y, t + 1)

\* n (n - 1) cov(x, y)
CovNum(x, y) == Len(x) * DotSeq(x, y, 1) - SumSeq(x, 1) * SumSeq(y, 1)

RECURSIVE IsqrtIn(_, _, _)
\* the largest k in lo..hi with k * k <= v
IsqrtIn(lo, hi, v) ==
    IF lo >= hi THEN lo
    ELSE LET mid == (lo + hi + 1) \div 2
         IN  IF mid * mid <= v THEN IsqrtIn(mid, hi, v)
             ELSE IsqrtIn(lo, mid - 1, v)

pearson_one_stddev(c, di, dj) ==
    IF di = 0 \/ dj = 0 THEN NaN
    ELSE LET q == IF Abs(c) >= di THEN 1000 ELSE (Abs(c) * 1000) \div di
         IN  Fin(Sgn(c) * q, -3)

\* c / stddev[i] / stddev[j], clipped to [-1, 1]: a float with three decimals,
\* exactly 1 or -1 when c^2 = di dj
pearson(c, di, dj) ==
    IF di = 0 \/ dj = 0 THEN NaN        \* 0 / 0
    ELSE IF c * c >= di * dj THEN Fin(Sgn(c), 0)
    ELSE Fin(Sgn(c) * IsqrtIn(0, 1000, (c * c * 1000000) \div (di * dj)), -3)

\* np.corrcoef(Y) of the rows of Y (one row per parcel)
corrcoef(Y) ==
    LET d == [i \in 1..Len(Y) |-> CovNum(Y[i], Y[i])]
    IN  [i \in 1..Len(Y) |-> [j \in 1..Len(Y) |->
            IF Len(Y[i]) <= 1 THEN NaN  \* mean of nothing, or 0 / (n - 1) = 0 / 0
            ELSE pearson(CovNum(Y[i], Y[j]), d[i], d[j])]]

\* if z_transformed == True: conn_matrix = z_transform_conn_matrix(conn_matrix)
transformed(C, z_transformed) ==
    IF z_transformed THEN z_transform_conn_matrix(C) ELSE C

\* lines 419-429 of get_conn_matrix on the array A, with concat_ts = concat and
\* z_transformed = z
ConnMatrixOf(A, concat, z) ==
    /\ gargs' = Value([concat_ts |-> concat, z_transformed |-> z])
    /\ IF concat
       THEN IF Len(A) = 0
            THEN \* np.row_stack: need at least one array to concatenate
                 /\ stacked' = NoValue
                 /\ corrs' = <<>>
                 /\ conn_matrix' = Raised("ValueError")
            ELSE /\ stacked' = Value(row_stack(A))
                 /\ corrs' = <<corrcoef(Transpose(stacked'.v))>>
                 /\ conn_matrix' = Value(transformed(corrs'[1], z))
       ELSE /\ stacked' = NoValue
            /\ corrs' = [s \in 1..Len(A) |-> corrcoef(Transpose(A[s]))]
            /\ conn_matrix' = Value([s \in 1..Len(A) |-> transformed(corrs'[s], z)])

\* get_conn_matrix(subject, subject_ts, concat_ts = concat, z_transformed = z)
\* with subject_ts the path of the saved array subj_ts_array (np.load)
GetConnMatrix(concat, z) ==
    /\ gargs = NoValue
    /\ ConnMatrixOf(subj_ts_array, concat, z)
    /\ UNCHANGED <<subj_ts_array, notG>>

\* the largest number of samples (sessions x volumes per session) tried
MaxSamples == 4

\* the values a cleaned signal takes in the model
SignalValues == {0, 1}

InitG ==
    /\ \E dv \in 0..MaxSamples, S \in 0..MaxSamples :
        LET V == MaxSamples - dv
        IN  /\ S * V <= MaxSamples
            /\ subj_ts_array \in [1..S -> [1..V -> [1..NParcels -> SignalValues]]]
    /\ gargs = NoValue
    /\ stacked = NoValue
    /\ corrs = <<>>
    /\ conn_matrix = NoValue
    /\ ZIdle
    /\ DIdle
    /\ FIdle
    /\ SIdle
    /\ PIdle

NextG == \E concat \in BOOLEAN, z \in BOOLEAN : GetConnMatrix(concat, z)

SpecG == InitG /\ [][NextG]_vars

(***************************************************************************)
(* get_sessions, get_ts_paths, get_confounds, parcellate, clean_signal and *)
(* get_conn_matrix on one subject's directory                              *)
(***************************************************************************)
\* the number of runs of the task a func directory can hold
MaxRuns == 2

\* the files of a func directory that belong to the task: the preprocessed
\* image ("bold", ..._desc-preproc_bold.nii.gz) and the confounds table
\* ("conf", ..._confounds_timeseries.tsv) of a run
FuncFiles == [kind : {"bold", "conf"}, run : 1..MaxRuns]

\* what os.listdir can return for a func directory: some files, in some order
Listings ==
    UNION {{q \in [1..n -> FuncFiles] : \A i, j \in 1..n : q[i] = q[j] => i = j} :
            n \in 0..Cardinality(FuncFiles)}

\* the columns of a confounds table, those named in default_confounds.txt and
\* those named in the file a caller passes as pick_confounds
AllColumns == {"global_signal", "csf", "white_matter", "trans_x", "rot_x"}
DefaultConfounds == {"global_signal", "csf", "white_matter"}
PickedConfounds == {"csf", "trans_x"}

\* get_sessions(subject): the names of the 'ses-*' entries, as listed
get_sessions == sessions

RECURSIVE PathsFrom(_, _, _)
\* [f'{dir}/{i}' for i in os.listdir(dir) if task in i and i.endswith(...)]
PathsFrom(k, kind, i) ==
    IF i > Len(funcdirs[k].listing) THEN <<>>
    ELSE (IF funcdirs[k].listing[i].kind = kind
          THEN <<[ses |-> k, file |-> funcdirs[k].listing[i]]>> ELSE <<>>)
         \o PathsFrom(k, kind, i + 1)

RECURSIVE SessionPaths(_, _)
\* the loop over session_names: a session without func directory adds nothing
SessionPaths(kind, n) ==
    IF n > Len(get_sessions) THEN <<>>
    ELSE (IF funcdirs[get_sessions[n]].exists
          THEN PathsFrom(get_sessions[n], kind, 1) ELSE <<>>)
         \o SessionPaths(kind, n + 1)

\* the files of kind of the subject, or the error of os.listdir
FilesOfSubject(kind) ==
    IF Len(get_sessions) # 0 THEN Value(SessionPaths(kind, 1))
    ELSE IF funcdirs[0].exists THEN Value(PathsFrom(0, kind, 1))
    ELSE Raised("FileNotFoundError")

\* get_ts_paths(subject, task)
get_ts_paths == FilesOfSubject("bold")

\* pd.read_csv(path, sep = '\t')
read_csv(path) == [src |-> path, cols |-> AllColumns]

\* _impute_nans_confounds(dataframe, pick_confounds): pick is "None" or "given"
impute_nans_confounds(dataframe, pick, pick_confounds) ==
    [dataframe EXCEPT !.cols = IF pick = "None" THEN DefaultConfounds
                               ELSE pick_confounds]

\* get_confounds(subject, task, no_nans, pick_confounds): pick is "None" or
\* "given" (the path of a file that lists PickedConfounds)
get_confounds(no_nans, pick) ==
    LET pick_confounds == IF pick = "None" THEN DefaultConfounds ELSE PickedConfounds
        paths == FilesOfSubject("conf")
    IN  IF paths.k = "raised" THEN paths
        ELSE IF Len(get_sessions) # 0
        THEN IF no_nans
             THEN Value([n \in DOMAIN paths.v |->
                    impute_nans_confounds(read_csv(paths.v[n]), "None", {})])
             ELSE Value([n \in DOMAIN paths.v |->
                    [read_csv(paths.v[n]) EXCEPT !.cols = pick_confounds]])
        ELSE IF no_nans
             THEN Value([n \in DOMAIN paths.v |->
                    impute_nans_confounds(read_csv(paths.v[n]), "given", pick_confounds)])
             ELSE Value([n \in DOMAIN paths.v |-> read_csv(paths.v[n])])

Min(a, b) == IF a <= b THEN a ELSE b

\* zip(subject_ts_paths, confounds), with global_signal dropped unless gsr
zip_for_masker(paths, tables, gsr) ==
    [n \in 1..Min(Len(paths), Len(tables)) |->
        [ts |-> paths[n],
         confounds |-> IF gsr THEN tables[n]
                       ELSE [tables[n] EXCEPT !.cols = @ \ {"global_signal"}]]]

\* clean_ts[10:] of one denoised image: the model keeps two volumes, which
\* depend on the run only
CleanSignal(pair) ==
    IF pair.ts.file.run % 2 = 1 THEN <<<<0, 0>>, <<1, 1>>>> ELSE <<<<0, 1>>, <<1, 0>>>>

Called(op, no_nans, pick, gsr) ==
    Value([op |-> op, no_nans |-> no_nans, pick |-> pick, gsr |-> gsr])

GetSessionsAndTsPaths ==
    /\ call = NoValue
    /\ call' = Called("get_ts_paths", TRUE, "None", FALSE)
    /\ ts_paths' = IF get_ts_paths.k = "ok" THEN get_ts_paths.v ELSE <<>>
    /\ ret' = get_ts_paths
    /\ UNCHANGED <<sessions, funcdirs, confounds, fitted, zvars, gvars, dvars, fvars, pvars>>

GetConfounds(no_nans, pick) ==
    /\ call = NoValue
    /\ call' = Called("get_confounds", no_nans, pick, FALSE)
    /\ confounds' = IF get_confounds(no_nans, pick).k = "ok"
                    THEN get_confounds(no_nans, pick).v ELSE <<>>
    /\ ret' = get_confounds(no_nans, pick)
    /\ UNCHANGED <<sessions, funcdirs, ts_paths, fitted, zvars, gvars, dvars, fvars, pvars>>

\* lines 326-336 of parcellate: the pairs the masker is fitted on
ParcellateInto(gsr) ==
    IF get_ts_paths.k = "raised"
    THEN /\ ts_paths' = <<>> /\ confounds' = <<>> /\ fitted' = <<>>
    ELSE /\ ts_paths' = get_ts_paths.v
         /\ confounds' = get_confounds(TRUE, "None").v
         /\ fitted' = zip_for_masker(ts_paths', confounds', gsr)

\* parcellate(subject, task = task, gsr = gsr)
Parcellate(gsr) ==
    /\ call = NoValue
    /\ call' = Called("parcellate", TRUE, "None", gsr)
    /\ ParcellateInto(gsr)
    /\ ret' = IF get_ts_paths.k = "raised" THEN get_ts_paths
              ELSE Value([n \in DOMAIN fitted' |-> fitted'[n].ts])
    /\ UNCHANGED <<sessions, funcdirs, zvars, gvars, dvars, fvars, pvars>>

\* get_conn_matrix(subject, concat_ts = concat, z_transformed = z) with
\* subject_ts = None: clean_signal (parcellate, signal.clean, np.array), then
\* the correlations
SubjectConnMatrix(concat, z) ==
    /\ call = NoValue
    /\ call' = Called("get_conn_matrix", TRUE, "None", FALSE)
    /\ ParcellateInto(FALSE)
    /\ IF get_ts_paths.k = "raised"
       THEN /\ ret' = get_ts_paths
            /\ UNCHANGED gvars
       ELSE /\ subj_ts_array' = [n \in DOMAIN fitted' |-> CleanSignal(fitted'[n])]
            /\ ConnMatrixOf(subj_ts_array', concat, z)
            /\ ret' = conn_matrix'
    /\ UNCHANGED <<sessions, funcdirs, zvars, dvars, fvars, pvars>>

\* the subject directories: no session (and perhaps a func directory), or up
\* to MaxSes sessions listed in some order, each with or without func
InitS ==
    /\ sessions \in UNION {{q \in [1..n -> 1..MaxSes] :
                                \A i, j \in 1..n : q[i] = q[j] => i = j} :
                            n \in 0..MaxSes}
    /\ funcdirs \in [0..MaxSes -> {NoDir} \cup [exists : {TRUE}, listing : Listings]]
    /\ \A k \in 0..MaxSes :
        (IF k = 0 THEN Len(sessions) # 0 ELSE \A n \in DOMAIN sessions : sessions[n] # k)
            => funcdirs[k] = NoDir
    /\ call = NoValue
    /\ ts_paths = <<>>
    /\ confounds = <<>>
    /\ fitted = <<>>
    /\ ret = NoValue
    /\ ZIdle
    /\ GIdle
    /\ DIdle
    /\ FIdle
    /\ PIdle

NextS ==
    \/ GetSessionsAndTsPaths
    \/ \E no_nans \in BOOLEAN, pick \in {"None", "given"} : GetConfounds(no_nans, pick)
    \/ \E gsr \in BOOLEAN : Parcellate(gsr)
    \/ \E concat \in BOOLEAN, z \in BOOLEAN : SubjectConnMatrix(concat, z)

SpecS == InitS /\ [][NextS]_vars

(***************************************************************************)
(* get_conn_matrix: saving the matrix and recording its path               *)
(***************************************************************************)
\* the number of get_conn_matrix calls made on one object
MaxSaves == 2

Tasks == {"rest", "nback"}

\* what a caller passes as save_to: None, or a directory, which may or may
\* not exist
SaveTos == {"None", "out"}

\* os.path.join(f'{self.data_path}', 'clean_data', f'sub-{subject}', 'func')
DefaultDir(subject) == <<"clean_data", subject, "func">>

\* os.path.join(dir, f'conn-matrix-sub-{subject}-{task}-{parcellation}{n_parcels}.npy')
conn_path(dir, subject, task) == [dir |-> dir, subject |-> subject, task |-> task]

\* d[key] = value on a dict
SetItem(d, key, value) ==
    [k \in DOMAIN d \cup {key} |-> IF k = key THEN value ELSE d[k]]

\* the dicts __init__ can build: for every subject whose default directory
\* exists and lists at least one conn-matrix file, the first one listed
ConstructedPaths(dirs_, files_) ==
    LET found == {s \in Subjects :
                    /\ DefaultDir(s) \in dirs_
                    /\ \E f \in files_ : f.dir = DefaultDir(s)}
    IN {d \in [found -> files_] : \A s \in found : d[s].dir = DefaultDir(s)}

\* np.save(save_to, conn_matrix) opens the file for writing: it fails when
\* the directory of the path does not exist
np_save_succeeds(path, dirs_) == path.dir \in dirs_

\* the end of get_conn_matrix, once the matrix is computed (computes), or the
\* error of clean_signal / np.load / np.corrcoef otherwise
GetConnMatrixSave(subject, task, save, save_to, computes) ==
    LET save_dir == IF save_to = "None" THEN DefaultDir(subject) ELSE <<save_to>>
        path == conn_path(save_dir, subject, task)
        \* os.makedirs(save_dir) on the default path only
        made == IF save_to = "None" THEN out_dirs \cup {save_dir} ELSE out_dirs
        written == np_save_succeeds(path, made)
        args == [subject |-> subject, task |-> task, save |-> save,
                 save_to |-> save_to,
                 paths_before |-> subject_conn_paths,
                 files_before |-> npy_files]
    IN
    /\ n_saves < MaxSaves
    /\ n_saves' = n_saves + 1
    /\ IF ~computes
       THEN /\ save_call' = Raised(args)
            /\ UNCHANGED <<out_dirs, npy_files, subject_conn_paths, last_save>>
       ELSE IF ~save
       THEN /\ save_call' = Value(args)
            /\ UNCHANGED <<out_dirs, npy_files, subject_conn_paths, last_save>>
       ELSE /\ out_dirs' = made
            /\ subject_conn_paths' = SetItem(subject_conn_paths, subject, path)
            /\ npy_files' = IF written THEN npy_files \cup {path} ELSE npy_files
            /\ save_call' = IF written THEN Value(args) ELSE Raised(args)
            /\ last_save' = [last_save EXCEPT ![subject] =
                                Value([path |-> path, task |-> task,
                                       save_to |-> save_to, written |-> written])]
    /\ UNCHANGED <<zvars, gvars, dvars, fvars, svars>>

\* a constructed FmriPreppedDataSet over some output directories
InitP ==
    /\ out_dirs \in SUBSET ({DefaultDir(s) : s \in Subjects} \cup {<<"out">>})
    /\ npy_files \in SUBSET {conn_path(DefaultDir(s), s, t) : s \in Subjects, t \in Tasks}
    /\ \A f \in npy_files : f.dir \in out_dirs
    /\ subject_conn_paths \in ConstructedPaths(out_dirs, npy_files)
    /\ save_call = NoValue
    /\ last_save = [s \in Subjects |-> NoValue]
    /\ n_saves = 0
    /\ ZIdle
    /\ GIdle
    /\ DIdle
    /\ FIdle
    /\ SIdle

NextP ==
    \E subject \in Subjects, task \in Tasks, save \in BOOLEAN,
       save_to \in SaveTos, computes \in BOOLEAN :
        GetConnMatrixSave(subject, task, save, save_to, computes)

SpecP == InitP /\ [][NextP]_vars

(***************************************************************************)
(* Claims about z_transform_conn_matrix (SpecZ)                            *)
(***************************************************************************)
\* a finite correlation: a finite float x with -1 <= x <= 1
IsCorrelation(x) ==
    /\ IsFinite(x)
    /\ \/ x.m = 0
       \/ x.e \in -4..0 /\ Abs(ToFix(x)) <= FixOne

AllCorrelations(M) == \A ij \in Cells(M) : IsCorrelation(M[ij[1]][ij[2]])

\* C1: whenever every entry of the input is a finite correlation in [-1, 1]
\* (1 and -1 included), no entry of the returned matrix is NaN, +Inf or -Inf.
C1_NoNanNoInf ==
    (zout.k = "ok" /\ AllCorrelations(zin)) =>
        \A ij \in Cells(zout.v) :
            ~IsNaN(zout.v[ij[1]][ij[2]]) /\ ~IsInf(zout.v[ij[1]][ij[2]])

\* a call on correlations that has both an exact 1 and an exact -1
C1_Witness ==
    /\ zout.k = "ok"
    /\ AllCorrelations(zin)
    /\ \E ij \in Cells(zin) : zin[ij[1]][ij[2]] = Fin(1, 0)
    /\ \E ij \in Cells(zin) : zin[ij[1]][ij[2]] = Fin(-1, 0)
    /\ \E ij \in Cells(zin) : zin[ij[1]][ij[2]] = Fin(5, -1)

\* C2: the returned matrix has the shape of the input and, at every position,
\* holds 1e-10 where the inverse hyperbolic tangent of the entry is NaN, 1
\* where it is infinite (of either sign), and the inverse hyperbolic tangent
\* itself everywhere else.
C2_Elementwise ==
    zout.k = "ok" =>
        /\ Cells(zout.v) = Cells(zin)
        /\ \A ij \in Cells(zin) :
            LET t == arctanh(zin[ij[1]][ij[2]])
                r == zout.v[ij[1]][ij[2]]
            IN  /\ IsNaN(t) => r = Fin(1, -10)
                /\ IsInf(t) => r = Fin(1, 0)
                /\ IsFinite(t) => r = t

\* a call whose input has an entry of each kind: transform NaN, +Inf, -Inf
\* and finite non-zero
C2_Witness ==
    /\ zout.k = "ok"
    /\ \E ij \in Cells(zin) :
        IsNaN(arctanh(zin[ij[1]][ij[2]])) /\ zout.v[ij[1]][ij[2]] = Fin(1, -10)
    /\ \E ij \in Cells(zin) :
        arctanh(zin[ij[1]][ij[2]]) = Inf(1) /\ zout.v[ij[1]][ij[2]] = Fin(1, 0)
    /\ \E ij \in Cells(zin) :
        arctanh(zin[ij[1]][ij[2]]) = Inf(-1) /\ zout.v[ij[1]][ij[2]] = Fin(1, 0)
    /\ \E ij \in Cells(zin) :
        /\ zin[ij[1]][ij[2]] = Fin(5, -1)          \* atanh(0.5) = 0.5493...
        /\ zout.v[ij[1]][ij[2]].e = -4
        /\ zout.v[ij[1]][ij[2]].m \in 5490..5496

(***************************************************************************)
(* Claims about get_conn_matrix on an array of time series (SpecG)         *)
(***************************************************************************)
\* every (session, volume) of subj_ts_array
Samples == {sv \in (DOMAIN subj_ts_array) \X (1..MaxSamples) :
                sv[2] \in DOMAIN subj_ts_array[sv[1]]}

RECURSIVE SumOver(_, _)
\* the sum of f[x] over the x in S
SumOver(S, f) ==
    IF S = {} THEN 0
    ELSE LET x == CHOOSE y \in S : TRUE IN f[x] + SumOver(S \ {x}, f)

\* sums over all samples of parcel i, and of the product of parcels i and j
PooledSum(i) ==
    SumOver(Samples, [sv \in Samples |-> subj_ts_array[sv[1]][sv[2]][i]])
PooledDot(i, j) ==
    SumOver(Samples, [sv \in Samples |->
        subj_ts_array[sv[1]][sv[2]][i] * subj_ts_array[sv[1]][sv[2]][j]])
PooledCov(i, j) ==
    Cardinality(Samples) * PooledDot(i, j) - PooledSum(i) * PooledSum(j)

\* Pearson's r of parcels i and j over all samples of all sessions: NaN with
\* fewer than two samples or a parcel without variance, otherwise
\* sign(cov) sqrt(cov^2 / (var_i var_j)) to three decimals
PooledPearson(i, j) ==
    IF Cardinality(Samples) < 2 \/ PooledCov(i, i) = 0 \/ PooledCov(j, j) = 0
    THEN NaN
    ELSE LET c == PooledCov(i, j)
             dd == PooledCov(i, i) * PooledCov(j, j)
         IN  IF c * c = dd THEN Fin(Sgn(c), 0)
             ELSE Fin(Sgn(c) * IsqrtIn(0, 999, (c * c * 1000000) \div dd), -3)

\* Fisher's transform with the two sentinels, of one correlation
Fisher(r) ==
    LET t == arctanh(r)
    IN  IF IsNaN(t) THEN Fin(1, -10) ELSE IF IsInf(t) THEN Fin(1, 0) ELSE t

IsFloat(x) == x \in [k : {"nan", "inf", "fin"}, m : Int, e : Int]

FloatEq(a, b) == ~IsNaN(a) /\ ~IsNaN(b) /\ a = b

\* the statement of C5 as written: every correlation matrix of a call is
\* square, symmetric and has ones on its diagonal
C5_SymmetricUnitDiagonal ==
    \A n \in DOMAIN corrs :
        /\ DOMAIN corrs[n] = 1..NParcels
        /\ \A i \in 1..NParcels : DOMAIN corrs[n][i] = 1..NParcels
        /\ \A i, j \in 1..NParcels : FloatEq(corrs[n][i][j], corrs[n][j][i])
        /\ \A i \in 1..NParcels : corrs[n][i][i] = Fin(1, 0)

\* the (volumes x parcels) array the n-th correlation matrix of the call is of
CorrInput(n) ==
    IF gargs.v.concat_ts THEN stacked.v ELSE subj_ts_array[n]

\* parcel i takes two different values in X
Varies(X, i) == \E t, u \in DOMAIN X : X[t][i] # X[u][i]

\* C5 (amended): every correlation matrix of a call is square; its entry
\* [i][j] is NaN exactly when parcel i or parcel j has no variance in the
\* array correlated (which includes every array of fewer than two volumes);
\* every other entry is a finite number in [-1, 1] equal to entry [j][i], and
\* equal to 1 on the diagonal.
C5_SymmetricUnitDiagonalWhereDefined ==
    \A n \in DOMAIN corrs :
        /\ DOMAIN corrs[n] = 1..NParcels
        /\ \A i \in 1..NParcels : DOMAIN corrs[n][i] = 1..NParcels
        /\ \A i, j \in 1..NParcels :
            LET X == CorrInput(n)
                r == corrs[n][i][j]
            IN  IF Varies(X, i) /\ Varies(X, j)
                THEN /\ IsCorrelation(r)
                     /\ r = corrs[n][j][i]
                     /\ i = j => r = Fin(1, 0)
                ELSE IsNaN(r)

\* a call that correlated an array in which both parcels vary, and one in
\* which the first parcel is constant and the second is not
C5_Witness ==
    /\ gargs.k = "ok"
    /\ \E n \in DOMAIN corrs :
        /\ corrs[n][1][1] = Fin(1, 0) /\ corrs[n][2][2] = Fin(1, 0)
        /\ IsFinite(corrs[n][1][2])
        /\ corrs[n][1][2] = corrs[n][2][1]
    /\ \E n \in DOMAIN corrs :
        /\ IsNaN(corrs[n][1][1]) /\ IsNaN(corrs[n][1][2]) /\ IsNaN(corrs[n][2][1])
        /\ corrs[n][2][2] = Fin(1, 0)

(***************************************************************************)
(* Claims about docker_fmriprep (SpecD)                                    *)
(***************************************************************************)
\* the calls started so far
CallsStarted == Len(printed) + (IF dpc \in {"idle", "returned"} THEN 0 ELSE 1)

\* C7: every call of docker_fmriprep spawns exactly one subprocess; the log is
\* read back and the call returns only after that subprocess has exited; once
\* the subprocess has exited the call eventually returns; and a call whose
\* subprocess never exits never returns.
C7_PollsToCompletion ==
    /\ [](/\ dpc \in {"poll", "sleep", "read", "returned"}
             => Len(procs) = CallsStarted
          /\ dpc = "opened" => Len(procs) = CallsStarted - 1
          /\ dpc \in {"read", "returned"} => process = "exited"
          /\ Len(printed) <= Len(procs)
          /\ \A n \in DOMAIN printed : procs[n] = "exited")
    /\ (process = "exited") ~> (dpc = "returned")
    /\ []((process = "running" /\ [](process # "exited"))
            => [](dpc # "read" /\ dpc # "returned"))

\* a second call that slept while its subprocess ran, then returned after the
\* subprocess exited and printed the lines the subprocess had written
C7_Witness ==
    /\ dpc = "returned"
    /\ Len(procs) = 2 /\ procs[1] = "exited" /\ procs[2] = "exited"
    /\ Len(printed) = 2 /\ printed[2] = MaxOutput

(***************************************************************************)
(* Claims about the constructor and _find_sub_dirs (SpecF, SpecFFair)      *)
(***************************************************************************)
\* the constructor is over: it returned or raised
Constructed == cpc \in {"returned", "raised"}

\* os.listdir raised in _find_sub_dirs
ListingFailed == cpc = "raised" /\ oserror # NoError

\* the statement of C6 as written: constructing the object (with a BIDS_path)
\* when <BIDS_path>/derivatives does not exist raises the FileNotFoundError
\* that says the data have not been preprocessed; every other error of a
\* listing is raised as the OS made it.
C6_MissingDerivativesReworded ==
    /\ (Constructed /\ ~Exists(Derivatives) /\ error.type # "ValueError")
            => (cpc = "raised" /\ error = NotPreprocessed)
    /\ (ListingFailed /\ Exists(Derivatives)) => error = oserror

\* C6 (amended): when RawDataset.__init__ has succeeded (BIDS_path given,
\* participants.tsv read) and <BIDS_path>/derivatives does not exist, the
\* constructor raises the FileNotFoundError that says the data have not been
\* preprocessed if the OS words the failure 'No such file or directory', as
\* POSIX systems do; with any other wording, and for every other error of a
\* listing, the error of os.listdir is raised unchanged.
C6_MissingDerivativesRewordedOnPosix ==
    /\ (cpc \in {"while", "for", "returned"} \/ ListingFailed)
            => error.type # "ValueError"
    /\ ((cpc = "returned" \/ ListingFailed) /\ ~Exists(Derivatives))
            => /\ cpc = "raised"
               /\ oserror.type = "FileNotFoundError"
               /\ platform = "posix" => error = NotPreprocessed
               /\ platform # "posix" => error = oserror
    /\ (ListingFailed /\ Exists(Derivatives))
            => error = oserror /\ error.type = "NotADirectoryError"
    /\ (cpc = "raised" /\ ~ListingFailed)
            => error.message # NotPreprocessed.message

\* the missing derivatives directory reported in the reworded form
C6_Witness ==
    /\ cpc = "raised"
    /\ ~Exists(Derivatives)
    /\ oserror.type = "FileNotFoundError" /\ oserror.filename = Derivatives
    /\ error = NotPreprocessed

\* the statement of C10: on every finite tree _find_sub_dirs comes to an end,
\* returning a directory that has an entry starting with 'sub-' or raising
C10_FindSubDirsTerminates ==
    /\ [](cpc = "returned" => \E n \in Entries(data_path) : StartsWithSub(n))
    /\ (cpc = "while") ~> (cpc \in {"returned", "raised"})

(***************************************************************************)
(* Claims about one subject's directory (SpecS)                            *)
(***************************************************************************)
CallOf(op) == call.k = "ok" /\ call.v.op = op

\* the statement of C3: get_conn_matrix with subject_ts=None and
\* concat_ts=False returns as many matrices as get_sessions found session
\* directories, and one when it found none
C3_OneMatrixPerSession ==
    (CallOf("get_conn_matrix") /\ ret.k = "ok" /\ ~gargs.v.concat_ts) =>
        Len(ret.v) = IF Len(sessions) = 0 THEN 1 ELSE Len(sessions)

\* the statement of C8: every table get_confounds returns has the picked
\* columns: those of the file given as pick_confounds, the default ones
\* when it is None
C8_TablesHavePickedColumns ==
    (CallOf("get_confounds") /\ ret.k = "ok") =>
        \A n \in DOMAIN ret.v :
            ret.v[n].cols = IF call.v.pick = "None" THEN DefaultConfounds
                            ELSE PickedConfounds

\* the statement of C9: parcellate fits every time series of get_ts_paths,
\* each with the confounds table of its own session and run
C9_PairsBelongTogether ==
    (CallOf("parcellate") /\ ret.k = "ok") =>
        /\ \A n \in DOMAIN fitted :
            /\ fitted[n].confounds.src.ses = fitted[n].ts.ses
            /\ fitted[n].confounds.src.file.run = fitted[n].ts.file.run
        /\ \A n \in DOMAIN ts_paths : \E m \in DOMAIN fitted : fitted[m].ts = ts_paths[n]

(***************************************************************************)
(* Claims about the recorded connectivity-matrix paths (SpecP)             *)
(***************************************************************************)
\* a call of get_conn_matrix has ended
SaveCalled == save_call.k # "none"

HasEntry(d, s) == s \in DOMAIN d

SameEntry(d1, d2, s) ==
    /\ HasEntry(d1, s) <=> HasEntry(d2, s)
    /\ HasEntry(d1, s) => d1[s] = d2[s]

\* C11: after any sequence of get_conn_matrix calls, subject_conn_paths[s] is
\* the path of the file written by the most recent call for subject s with
\* save=True (under clean_data/sub-<s>/func when save_to is None, otherwise
\* under save_to); a call with save=False writes no file and leaves
\* subject_conn_paths unchanged; no call changes the entry of a subject
\* other than its own.
C11_ConnPathsTrackSaves ==
    /\ \A s \in Subjects :
        last_save[s].k = "ok" =>
            LET c == last_save[s].v IN
            /\ HasEntry(subject_conn_paths, s)
            /\ subject_conn_paths[s] = c.path
            /\ c.path.dir = (IF c.save_to = "None" THEN DefaultDir(s) ELSE <<c.save_to>>)
            /\ c.written
            /\ c.path \in npy_files
    /\ SaveCalled =>
        LET c == save_call.v IN
        /\ ~c.save => /\ npy_files = c.files_before
                      /\ subject_conn_paths = c.paths_before
        /\ \A s \in Subjects \ {c.subject} :
                SameEntry(subject_conn_paths, c.paths_before, s)

====
